---- MODULE Spec2Model ----
(***************************************************************************)
(* Reconciliation core of the managedcluster-import-controller:            *)
(* pkg/controller/managedcluster/managedcluster_controller.go.             *)
(*                                                                         *)
(* One Reconcile is one atomic action on the object store (the work queue  *)
(* runs at most one reconcile per cluster name, and every object the code  *)
(* touches is named after request.Name).  The store calls a reconcile      *)
(* issues are kept, in order and with their outcome, in `last`.            *)
(***************************************************************************)
EXTENDS Integers, Sequences, FiniteSets, TLC

\* ------------------------------------------------------------------ bounds
\* the cluster names in the store, and the ones a request is delivered for
Names == {"c1", "c2"}
RequestNames == {"c1"}
MaxFail == 1
MaxEnv == 1
\* the longest list of status conditions a single call is applied to
MaxConditions == 2

\* --------------------------------------------------------------- constants
managedClusterFinalizer == "managedcluster-import-controller.open-cluster-management.io/cleanup"
registrationFinalizer == "cluster.open-cluster-management.io/api-resource-cleanup"
clusterLabel == "cluster.open-cluster-management.io/managedCluster"
selfManagedLabel == "local-cluster"
autoImportSecretName == "auto-import-secret"
ManagedClusterImportSucceeded == "ManagedClusterImportSucceeded"
ManagedClusterConditionAvailable == "ManagedClusterConditionAvailable"
RequeueAfterMinutes == 1

\* ------------------------------------------------------------------ errors
Nil == [type |-> "nil", detail |-> ""]
StoreError(call) == [type |-> "StoreError", detail |-> call]
NotFoundError(call) == [type |-> "NotFound", detail |-> call]
IsNotFound(err) == err.type = "NotFound"
BlockError(namespaceName) ==
  [type |-> "Blocked",
   detail |-> "can not delete namespace " \o namespaceName
              \o " as ClusterDeployment " \o namespaceName \o " still exist"]
ImportError == [type |-> "ImportError", detail |-> "import failed"]

\* ----------------------------------------------------------------- results
NoResult == [Requeue |-> FALSE, RequeueAfter |-> 0]
RequeueResult(minutes) == [Requeue |-> TRUE, RequeueAfter |-> minutes]

\* ------------------------------------------------------------- store calls
\* One entry of the call log: which store call, and how it ended.
Call(call, outcome) == [call |-> call, outcome |-> outcome]

\* A read: fails when the store fails this call, else reports existence.
Get(call, exists, fail) ==
  IF call \in fail THEN "error" ELSE IF exists THEN "ok" ELSE "notfound"

\* A write (update, create, delete, patch, upsert).
Write(call, fail) == IF call \in fail THEN "error" ELSE "ok"

GetError(call, outcome) ==
  IF outcome = "error" THEN StoreError(call)
  ELSE IF outcome = "notfound" THEN NotFoundError(call) ELSE Nil

Calls(log) == {log[i].call : i \in 1..Len(log)}
FailedCalls(log) == {log[i].call : i \in {j \in 1..Len(log) : log[j].outcome = "error"}}

\* ------------------------------------------------------------ customClient
\* What one Get answers: which reader served it, and with what.
Served(reader, value) == [reader |-> reader, value |-> value]

customClientGetCached(type, cached, authoritative) == Served("Client", cached)

\* customClient.Get: a *corev1.Secret is read through APIReader, which asks the
\* store itself; any other object through the embedded Client, which answers
\* from its cache.
customClientGet(type, cached, authoritative) ==
  IF type = "*corev1.Secret"
    THEN Served("APIReader", authoritative)
    ELSE Served("Client", cached)

\* --------------------------------------------------------------- finalizers
Contains(list, x) == \E i \in 1..Len(list) : list[i] = x

AddFinalizerAlways(finalizers, f) == Append(finalizers, f)

\* libgometav1.AddFinalizer: append unless already present
AddFinalizer(finalizers, f) ==
  IF Contains(finalizers, f) THEN finalizers ELSE Append(finalizers, f)

\* libgometav1.RemoveFinalizer: drop every occurrence
RemoveFinalizer(finalizers, f) == SelectSeq(finalizers, LAMBDA x : x # f)

\* ------------------------------------------------------------ strconv
TrueStrings == {"1", "t", "T", "TRUE", "true", "True"}
FalseStrings == {"0", "f", "F", "FALSE", "false", "False"}

ParseBoolErrorIsTrue(v) ==
  IF v \in TrueStrings THEN [value |-> TRUE, err |-> Nil]
  ELSE IF v \in FalseStrings THEN [value |-> FALSE, err |-> Nil]
  ELSE [value |-> TRUE, err |-> [type |-> "ParseBool", detail |-> v]]

\* strconv.ParseBool
ParseBool(v) ==
  IF v \in TrueStrings THEN [value |-> TRUE, err |-> Nil]
  ELSE IF v \in FalseStrings THEN [value |-> FALSE, err |-> Nil]
  ELSE [value |-> FALSE, err |-> [type |-> "ParseBool", detail |-> v]]

\* ------------------------------------------------------------- references
NoRef == [kind |-> "nil", name |-> ""]
ClusterDeploymentRef(n) == [kind |-> "ClusterDeployment", name |-> n]
SecretRef(n) == [kind |-> "Secret", name |-> n]

\* ------------------------------------------------------------------ store
\* The objects named after one cluster: the ManagedCluster, its namespace,
\* the ClusterDeployment and the auto-import secret in that namespace, and
\* what the provisioning pipeline creates there.
NoLabels == [k \in {} |-> ""]
HasLabel(labels, k) == k \in DOMAIN labels
SetLabel(labels, k, v) == [x \in (DOMAIN labels) \cup {k} |-> IF x = k THEN v ELSE labels[x]]

NoManagedCluster ==
  [exists |-> FALSE, deleting |-> FALSE, finalizers |-> <<>>,
   labels |-> NoLabels, conditions |-> <<>>]
NoNamespace == [exists |-> FALSE, deleting |-> FALSE, labels |-> NoLabels]
NoClusterDeployment == [exists |-> FALSE, finalizers |-> <<>>]

\* ------------------------------------------------------- deletion pipeline
DeleteOut(st, err, calls) == [store |-> st, err |-> err, calls |-> calls]

\* client.Delete(ns): the namespace gets its deletion timestamp
deleteNs(namespaceName, st, fail, calls) ==
  LET del == Write("DeleteNamespace", fail)
      log == Append(calls, Call("DeleteNamespace", del))
  IN IF del = "error"
       THEN DeleteOut(st, StoreError("DeleteNamespace"), log)
       ELSE DeleteOut([st EXCEPT !.ns.deleting = TRUE], Nil, log)

releaseClusterDeploymentThenDelete(namespaceName, st, fail, calls) ==
  LET upd == Write("UpdateClusterDeployment", fail)
      log == Append(calls, Call("UpdateClusterDeployment", upd))
      released == [st EXCEPT !.cd.finalizers =
                     RemoveFinalizer(st.cd.finalizers, managedClusterFinalizer)]
  IN IF upd = "error"
       THEN DeleteOut(st, StoreError("UpdateClusterDeployment"), log)
       ELSE deleteNs(namespaceName, released, fail, log)

releaseClusterDeploymentIgnoresUpdateError(namespaceName, st, fail, calls) ==
  LET upd == Write("UpdateClusterDeployment", fail)
      log == Append(calls, Call("UpdateClusterDeployment", upd))
      released == [st EXCEPT !.cd.finalizers =
                     RemoveFinalizer(st.cd.finalizers, managedClusterFinalizer)]
  IN IF upd = "error"
       THEN deleteNs(namespaceName, st, fail, log)
       ELSE DeleteOut(released, BlockError(namespaceName), log)

\* the ClusterDeployment exists: release the finalizer, then block
releaseClusterDeployment(namespaceName, st, fail, calls) ==
  LET upd == Write("UpdateClusterDeployment", fail)
      log == Append(calls, Call("UpdateClusterDeployment", upd))
      released == [st EXCEPT !.cd.finalizers =
                     RemoveFinalizer(st.cd.finalizers, managedClusterFinalizer)]
  IN IF upd = "error"
       THEN DeleteOut(st, StoreError("UpdateClusterDeployment"), log)
       ELSE DeleteOut(released, BlockError(namespaceName), log)

deleteNamespaceIgnoresDeletionTimestamp(namespaceName, st, fail) ==
  LET getNs == Get("GetNamespace", st.ns.exists, fail)
      log1 == <<Call("GetNamespace", getNs)>>
      getCd == Get("GetClusterDeployment", st.cd.exists, fail)
      log2 == Append(log1, Call("GetClusterDeployment", getCd))
  IN IF getNs = "notfound" THEN DeleteOut(st, Nil, log1)
     ELSE IF getNs = "error" THEN DeleteOut(st, StoreError("GetNamespace"), log1)
     ELSE IF getCd = "error" THEN DeleteOut(st, StoreError("GetClusterDeployment"), log2)
     ELSE IF getCd = "ok" THEN releaseClusterDeployment(namespaceName, st, fail, log2)
     ELSE deleteNs(namespaceName, st, fail, log2)

\* deleteNamespace: no namespace or one under deletion is a no-op; a
\* ClusterDeployment blocks; else the namespace is deleted
deleteNamespace(namespaceName, st, fail) ==
  LET getNs == Get("GetNamespace", st.ns.exists, fail)
      log1 == <<Call("GetNamespace", getNs)>>
      getCd == Get("GetClusterDeployment", st.cd.exists, fail)
      log2 == Append(log1, Call("GetClusterDeployment", getCd))
  IN IF getNs = "notfound" THEN DeleteOut(st, Nil, log1)
     ELSE IF getNs = "error" THEN DeleteOut(st, StoreError("GetNamespace"), log1)
     ELSE IF st.ns.deleting THEN DeleteOut(st, Nil, log1)
     ELSE IF getCd = "error" THEN DeleteOut(st, StoreError("GetClusterDeployment"), log2)
     ELSE IF getCd = "ok" THEN releaseClusterDeployment(namespaceName, st, fail, log2)
     ELSE deleteNs(namespaceName, st, fail, log2)

\* Not invoked: the value `last` carries when the pipeline did not run.
NoDelete == [invoked |-> FALSE, err |-> Nil, calls |-> <<>>]

\* ------------------------------------------------- import decision engine
Decision(secret, cd, toImport, err, calls) ==
  [secret |-> secret, cd |-> cd, toImport |-> toImport, err |-> err, calls |-> calls]

checkAutoImportWithRetryCounter(name, st, fail, calls) ==
  LET get == Get("GetAutoImportSecret", st.ais, fail)
      log == Append(calls, Call("GetAutoImportSecret", get))
      cnt == Get("GetAutoImportRetry", FALSE, fail)
      log2 == Append(log, Call("GetAutoImportRetry", cnt))
  IN IF get = "notfound" THEN Decision(NoRef, NoRef, FALSE, Nil, log)
     ELSE IF get = "error"
       THEN Decision(NoRef, NoRef, FALSE, StoreError("GetAutoImportSecret"), log)
     ELSE Decision(SecretRef(autoImportSecretName), NoRef, TRUE, Nil, log2)

\* rule 3: the auto-import secret in the cluster's namespace
checkAutoImport(name, st, fail, calls) ==
  LET get == Get("GetAutoImportSecret", st.ais, fail)
      log == Append(calls, Call("GetAutoImportSecret", get))
  IN IF get = "notfound" THEN Decision(NoRef, NoRef, FALSE, Nil, log)
     ELSE IF get = "error"
       THEN Decision(NoRef, NoRef, FALSE, StoreError("GetAutoImportSecret"), log)
     ELSE Decision(SecretRef(autoImportSecretName), NoRef, TRUE, Nil, log)

checkClusterDeploymentErrorFallsThrough(name, st, fail, calls) ==
  LET get == Get("GetClusterDeployment", st.cd.exists, fail)
      log == Append(calls, Call("GetClusterDeployment", get))
  IN IF get = "ok" THEN Decision(NoRef, ClusterDeploymentRef(name), TRUE, Nil, log)
     ELSE checkAutoImport(name, st, fail, log)

\* rule 2: the ClusterDeployment named after the cluster
checkClusterDeployment(name, st, fail, calls) ==
  LET get == Get("GetClusterDeployment", st.cd.exists, fail)
      log == Append(calls, Call("GetClusterDeployment", get))
  IN IF get = "ok" THEN Decision(NoRef, ClusterDeploymentRef(name), TRUE, Nil, log)
     ELSE IF get = "error"
       THEN Decision(NoRef, NoRef, FALSE, StoreError("GetClusterDeployment"), log)
     ELSE checkAutoImport(name, st, fail, log)

toBeImportedFalseFallsThrough(name, st, fail) ==
  LET labels == st.mc.labels
      parsed == ParseBool(labels[selfManagedLabel])
  IN IF HasLabel(labels, selfManagedLabel) /\ (parsed.value \/ parsed.err # Nil)
       THEN Decision(NoRef, NoRef, parsed.value, parsed.err, <<>>)
       ELSE checkClusterDeployment(name, st, fail, <<>>)

\* rule 1: the self-managed label, then the rules below it
toBeImported(name, st, fail) ==
  LET labels == st.mc.labels
      parsed == ParseBool(labels[selfManagedLabel])
  IN IF HasLabel(labels, selfManagedLabel)
       THEN Decision(NoRef, NoRef, parsed.value, parsed.err, <<>>)
       ELSE checkClusterDeployment(name, st, fail, <<>>)

NoDecision == [invoked |-> FALSE, secret |-> NoRef, cd |-> NoRef,
               toImport |-> FALSE, err |-> Nil, calls |-> <<>>]
Invoked(d) == [invoked |-> TRUE, secret |-> d.secret, cd |-> d.cd,
               toImport |-> d.toImport, err |-> d.err, calls |-> d.calls]

\* ------------------------------------------------ status condition recorder
Condition(type, status, reason, message) ==
  [type |-> type, status |-> status, reason |-> reason, message |-> message]

FindStatusCondition(conditions, type) ==
  LET idx == {i \in 1..Len(conditions) : conditions[i].type = type}
  IN IF idx = {} THEN 0 ELSE CHOOSE i \in idx : \A j \in idx : i <= j

\* meta.SetStatusCondition: overwrite the first condition of the type, else append
SetStatusCondition(conditions, new) ==
  LET i == FindStatusCondition(conditions, new.type)
  IN IF i = 0 THEN Append(conditions, new)
     ELSE [conditions EXCEPT ![i] = new]

newCondition(errIn, reason) ==
  IF errIn = Nil
    THEN Condition(ManagedClusterImportSucceeded, "True", "ManagedClusterImported",
                   "Import succeeded")
    ELSE Condition(ManagedClusterImportSucceeded, "False", "ManagedClusterNotImported",
                   IF reason # "" THEN errIn.detail \o ": " \o reason ELSE errIn.detail)

setConditionImportSwallowsPatchError(st, errIn, reason, fail, calls) ==
  LET patch == Write("PatchStatus", fail)
      log == Append(calls, Call("PatchStatus", patch))
      patched == [st EXCEPT !.mc.conditions =
                    SetStatusCondition(st.mc.conditions, newCondition(errIn, reason))]
  IN IF patch = "error"
       THEN [store |-> st, err |-> errIn, calls |-> log]
       ELSE [store |-> patched, err |-> errIn, calls |-> log]

\* setConditionImport: build the condition, set it, patch the status
setConditionImport(st, errIn, reason, fail, calls) ==
  LET patch == Write("PatchStatus", fail)
      log == Append(calls, Call("PatchStatus", patch))
      patched == [st EXCEPT !.mc.conditions =
                    SetStatusCondition(st.mc.conditions, newCondition(errIn, reason))]
  IN IF patch = "error"
       THEN [store |-> st, err |-> StoreError("PatchStatus"), calls |-> log]
       ELSE [store |-> patched, err |-> errIn, calls |-> log]

\* ------------------------------------------------- reachability classifier
checkOffLineDefaultsOnline(conditions) ==
  LET i == FindStatusCondition(conditions, ManagedClusterConditionAvailable)
  IN IF i = 0 THEN FALSE
     ELSE conditions[i].status = "Unknown" \/ conditions[i].status = "False"

\* checkOffLine: the first Available condition decides; none means offline
checkOffLine(conditions) ==
  LET i == FindStatusCondition(conditions, ManagedClusterConditionAvailable)
  IN IF i = 0 THEN TRUE
     ELSE conditions[i].status = "Unknown" \/ conditions[i].status = "False"

\* ------------------------------------------------------------- Reconcile
\* What one Reconcile leaves behind: the store, what it returned, the store
\* calls it issued, and the pipelines it ran.
Out(kind, st, result, err, calls, dn, tbi, attempted) ==
  [kind |-> kind, store |-> st, result |-> result, err |-> err, calls |-> calls,
   failed |-> FailedCalls(calls), dn |-> dn, tbi |-> tbi, attempted |-> attempted]

Abort(st, err, calls) ==
  Out("provision", st, NoResult, err, calls, NoDelete, NoDecision, FALSE)

NoImport == [result |-> NoResult, err |-> Nil]

\* importCluster: the direct import; its outcome is the remote cluster's
ImportOutcomes ==
  {[result |-> NoResult, err |-> Nil],
   [result |-> RequeueResult(RequeueAfterMinutes), err |-> Nil],
   [result |-> NoResult, err |-> ImportError]}
importCluster(imp) == imp

\* lines 289-297: import, then record the outcome
importAndRecord(name, st, fail, imp, calls, tbi) ==
  LET r == importCluster(imp)
      log == Append(calls, Call("importCluster", IF r.err = Nil THEN "ok" ELSE "failed"))
      rec == setConditionImport(st, r.err, "Unable to import " \o name, fail, log)
  IN IF r.result.Requeue \/ r.err # Nil
       THEN Out("provision", st, r.result, r.err, log, NoDelete, tbi, TRUE)
       ELSE Out("provision", rec.store, r.result, r.err, rec.calls, NoDelete, tbi, TRUE)

decideImportIgnoresDecision(name, st, fail, imp, calls) ==
  LET d == toBeImported(name, st, fail)
      tbi == Invoked(d)
      log == calls \o d.calls
  IN IF d.err # Nil
       THEN Out("provision", st, NoResult, d.err, log, NoDelete, tbi, FALSE)
     ELSE importAndRecord(name, st, fail, imp, log, tbi)

\* lines 277-286: ask the decision engine
decideImport(name, st, fail, imp, calls) ==
  LET d == toBeImported(name, st, fail)
      tbi == Invoked(d)
      log == calls \o d.calls
  IN IF d.err # Nil
       THEN Out("provision", st, NoResult, d.err, log, NoDelete, tbi, FALSE)
     ELSE IF ~d.toImport
       THEN Out("provision", st, NoResult, Nil, log, NoDelete, tbi, FALSE)
     ELSE importAndRecord(name, st, fail, imp, log, tbi)

\* createOrUpdateManifestWorks: the work item is replaced as a whole
createOrUpdateManifestWorks(name, st, fail, imp, calls) ==
  LET w == Write("createOrUpdateManifestWorks", fail)
      log == Append(calls, Call("createOrUpdateManifestWorks", w))
  IN IF w = "error" THEN Abort(st, StoreError("createOrUpdateManifestWorks"), log)
     ELSE Out("provision", [st EXCEPT !.mw = "current"], NoResult, Nil, log,
              NoDelete, NoDecision, FALSE)

reachabilityBranchInverted(name, st, fail, imp, calls) ==
  IF checkOffLine(st.mc.conditions)
    THEN createOrUpdateManifestWorks(name, st, fail, imp, calls)
    ELSE decideImport(name, st, fail, imp, calls)

\* lines 269-299: branch on reachability
reachabilityBranch(name, st, fail, imp, calls) ==
  IF ~checkOffLine(st.mc.conditions)
    THEN createOrUpdateManifestWorks(name, st, fail, imp, calls)
    ELSE decideImport(name, st, fail, imp, calls)

\* deleteKlusterletSyncSets: remove the legacy sync set, absent or not
deleteKlusterletSyncSets(name, st, fail, imp, calls) ==
  LET w == Write("deleteKlusterletSyncSets", fail)
      log == Append(calls, Call("deleteKlusterletSyncSets", w))
  IN IF w = "error" THEN Abort(st, StoreError("deleteKlusterletSyncSets"), log)
     ELSE reachabilityBranch(name, [st EXCEPT !.syncset = FALSE], fail, imp, log)

\* createOrUpdateImportSecret: the generated bundle, overwritten as a whole
createOrUpdateImportSecret(name, st, fail, imp, calls) ==
  LET w == Write("createOrUpdateImportSecret", fail)
      log == Append(calls, Call("createOrUpdateImportSecret", w))
  IN IF w = "error" THEN Abort(st, StoreError("createOrUpdateImportSecret"), log)
     ELSE deleteKlusterletSyncSets(name, [st EXCEPT !.importSecret = "current"],
                                   fail, imp, log)

\* generateImportYAMLs: renders the bundle; reads the store, writes nothing
generateImportYAMLs(name, st, fail, imp, calls) ==
  LET g == Write("generateImportYAMLs", fail)
      log == Append(calls, Call("generateImportYAMLs", g))
  IN IF g = "error" THEN Abort(st, StoreError("generateImportYAMLs"), log)
     ELSE createOrUpdateImportSecret(name, st, fail, imp, log)

createOrUpdateInPathWithServiceAccount(name, st, fail, imp, calls) ==
  LET w == Write("CreateOrUpdateInPath", fail)
      log == Append(calls, Call("CreateOrUpdateInPath", w))
  IN IF w = "error" THEN Abort(st, StoreError("CreateOrUpdateInPath"), log)
     ELSE generateImportYAMLs(name, [st EXCEPT !.manifests = "current", !.sa = "generated"],
                              fail, imp, log)

\* lines 239-249: upsert the static manifests, the service account excepted
createOrUpdateInPath(name, st, fail, imp, calls) ==
  LET w == Write("CreateOrUpdateInPath", fail)
      log == Append(calls, Call("CreateOrUpdateInPath", w))
  IN IF w = "error" THEN Abort(st, StoreError("CreateOrUpdateInPath"), log)
     ELSE generateImportYAMLs(name, [st EXCEPT !.manifests = "current"], fail, imp, log)

\* a.CreateResource(managedcluster-service-account.yaml)
createServiceAccount(name, st, fail, imp, calls) ==
  LET w == Write("CreateServiceAccount", fail)
      log == Append(calls, Call("CreateServiceAccount", w))
  IN IF w = "error" THEN Abort(st, StoreError("CreateServiceAccount"), log)
     ELSE createOrUpdateInPath(name, [st EXCEPT !.sa = "generated"], fail, imp, log)

\* lines 220-237: create the bootstrap service account when its lookup says
\* not-found; any other outcome of the lookup goes on to the manifests
bootstrapServiceAccount(name, st, fail, imp, calls) ==
  LET get == Get("GetServiceAccount", st.sa # "absent", fail)
      log == Append(calls, Call("GetServiceAccount", get))
  IN IF get = "notfound" THEN createServiceAccount(name, st, fail, imp, log)
     ELSE createOrUpdateInPath(name, st, fail, imp, log)

labelNamespaceWithInstanceNamespace(name, st, fail, imp, calls) ==
  LET w == Write("UpdateNamespace", fail)
      log == Append(calls, Call("UpdateNamespace", w))
      labelled == [st EXCEPT !.ns.labels = SetLabel(st.ns.labels, clusterLabel, "")]
  IN IF HasLabel(st.ns.labels, clusterLabel)
       THEN bootstrapServiceAccount(name, st, fail, imp, calls)
     ELSE IF w = "error" THEN Abort(st, StoreError("UpdateNamespace"), log)
     ELSE bootstrapServiceAccount(name, labelled, fail, imp, log)

\* lines 185-195: label the namespace when the label is missing
labelNamespace(name, st, fail, imp, calls) ==
  LET w == Write("UpdateNamespace", fail)
      log == Append(calls, Call("UpdateNamespace", w))
      labelled == [st EXCEPT !.ns.labels = SetLabel(st.ns.labels, clusterLabel, name)]
  IN IF HasLabel(st.ns.labels, clusterLabel)
       THEN bootstrapServiceAccount(name, st, fail, imp, calls)
     ELSE IF w = "error" THEN Abort(st, StoreError("UpdateNamespace"), log)
     ELSE bootstrapServiceAccount(name, labelled, fail, imp, log)

\* lines 177-183: fetch the namespace; not-found is an error here
getNamespace(name, st, fail, imp, calls) ==
  LET get == Get("GetNamespace", st.ns.exists, fail)
      log == Append(calls, Call("GetNamespace", get))
  IN IF get # "ok" THEN Abort(st, GetError("GetNamespace", get), log)
     ELSE labelNamespace(name, st, fail, imp, log)

\* lines 159-174: finalizer and name label, written by one unconditional Update
updateManagedCluster(name, st, fail, imp, calls) ==
  LET fins == AddFinalizer(st.mc.finalizers, managedClusterFinalizer)
      labels == IF HasLabel(st.mc.labels, "name") THEN st.mc.labels
                ELSE SetLabel(st.mc.labels, "name", name)
      w == Write("UpdateManagedCluster", fail)
      log == Append(calls, Call("UpdateManagedCluster", w))
      updated == [st EXCEPT !.mc.finalizers = fins, !.mc.labels = labels]
  IN IF w = "error" THEN Abort(st, StoreError("UpdateManagedCluster"), log)
     ELSE getNamespace(name, updated, fail, imp, log)

\* managedClusterDeletion: the deletion pipeline, its result returned as is
managedClusterDeletion(name, st, fail, calls) ==
  LET d == deleteNamespace(name, st, fail)
  IN Out("deletion", d.store, NoResult, d.err, calls \o d.calls,
         [invoked |-> TRUE, err |-> d.err, calls |-> d.calls], NoDecision, FALSE)

cleanupNamespaceReturnsError(name, st, fail, calls) ==
  LET d == deleteNamespace(name, st, fail)
  IN Out("cleanup", d.store, NoResult, d.err, calls \o d.calls,
         [invoked |-> TRUE, err |-> d.err, calls |-> d.calls], NoDecision, FALSE)

\* lines 138-150: the cluster is gone, clean its namespace up
cleanupNamespace(name, st, fail, calls) ==
  LET d == deleteNamespace(name, st, fail)
      result == IF d.err # Nil THEN RequeueResult(RequeueAfterMinutes) ELSE NoResult
  IN Out("cleanup", d.store, result, Nil, calls \o d.calls,
         [invoked |-> TRUE, err |-> d.err, calls |-> d.calls], NoDecision, FALSE)

ReconcileIgnoresDeletionTimestamp(name, st, fail, imp) ==
  LET get == Get("GetManagedCluster", st.mc.exists, fail)
      log == <<Call("GetManagedCluster", get)>>
  IN IF get = "notfound" THEN cleanupNamespace(name, st, fail, log)
     ELSE IF get = "error"
       THEN Out("fetch", st, NoResult, StoreError("GetManagedCluster"), log,
                NoDelete, NoDecision, FALSE)
     ELSE updateManagedCluster(name, st, fail, imp, log)

\* Reconcile: fetch the ManagedCluster and dispatch on what the store holds
Reconcile(name, st, fail, imp) ==
  LET get == Get("GetManagedCluster", st.mc.exists, fail)
      log == <<Call("GetManagedCluster", get)>>
  IN IF get = "notfound" THEN cleanupNamespace(name, st, fail, log)
     ELSE IF get = "error"
       THEN Out("fetch", st, NoResult, StoreError("GetManagedCluster"), log,
                NoDelete, NoDecision, FALSE)
     ELSE IF st.mc.deleting THEN managedClusterDeletion(name, st, fail, log)
     ELSE updateManagedCluster(name, st, fail, imp, log)

\* ------------------------------------------------------------ state machine
VARIABLES
  name,    \* request.Name: the cluster this controller instance is asked about
  store,   \* the object store, as far as it belongs to that cluster
  faults,  \* how many more calls the store fails with an error other than not-found
  changes, \* how many more changes come from outside this controller
  last     \* the latest Reconcile: what it started from, did and returned

vars == <<name, store, faults, changes, last>>

\* every store call and helper a Reconcile can issue
StoreCalls ==
  {"GetManagedCluster", "UpdateManagedCluster", "GetNamespace", "UpdateNamespace",
   "GetServiceAccount", "CreateServiceAccount", "CreateOrUpdateInPath",
   "generateImportYAMLs", "createOrUpdateImportSecret", "deleteKlusterletSyncSets",
   "createOrUpdateManifestWorks", "GetClusterDeployment", "GetAutoImportSecret",
   "PatchStatus", "UpdateClusterDeployment", "DeleteNamespace"}

\* the sets of at most n store calls
RECURSIVE FailSets(_)
FailSets(n) ==
  IF n = 0 THEN {{}}
  ELSE LET S == FailSets(n - 1) IN S \cup {s \cup {c} : s \in S, c \in StoreCalls}

SelfManagedValues == {"true", "false", "T", "no"}
AvailableStatuses == {"True", "False", "Unknown"}

Available(status) ==
  Condition(ManagedClusterConditionAvailable, status, "ManagedClusterAvailable", "")

ActiveManagedCluster(labels, conditions) ==
  [exists |-> TRUE, deleting |-> FALSE, finalizers |-> <<registrationFinalizer>>,
   labels |-> labels, conditions |-> conditions]

\* a cluster this controller has provisioned and a user has then deleted
DeletingManagedCluster(n) ==
  [exists |-> TRUE, deleting |-> TRUE,
   finalizers |-> <<registrationFinalizer, managedClusterFinalizer>>,
   labels |-> SetLabel(NoLabels, "name", n), conditions |-> <<>>]

InitClusterDeployments ==
  {NoClusterDeployment,
   [exists |-> TRUE, finalizers |-> <<>>],
   [exists |-> TRUE, finalizers |-> <<managedClusterFinalizer>>]}

Namespace(labels, deleting) == [exists |-> TRUE, deleting |-> deleting, labels |-> labels]

Store(mc, ns, cd, ais) ==
  [mc |-> mc, ns |-> ns, cd |-> cd, ais |-> ais, sa |-> "absent",
   manifests |-> "absent", importSecret |-> "absent", syncset |-> ns.exists,
   mw |-> "absent"]

InitStores(n) ==
  \* a new, unobserved cluster: every self-managed label with every
  \* combination of ClusterDeployment and auto-import secret
  {Store(ActiveManagedCluster(l, <<>>), Namespace(NoLabels, FALSE), cd, ais) :
     l \in {NoLabels} \cup {SetLabel(NoLabels, selfManagedLabel, v) : v \in SelfManagedValues},
     cd \in {NoClusterDeployment, [exists |-> TRUE, finalizers |-> <<>>]},
     ais \in BOOLEAN}
  \* an observed cluster, with every Available status
  \cup {Store(ActiveManagedCluster(NoLabels, <<Available(s)>>), Namespace(NoLabels, FALSE),
              NoClusterDeployment, FALSE) : s \in AvailableStatuses}
  \* a cluster labelled by its user, whose namespace is missing or labelled already
  \cup {Store(ActiveManagedCluster(SetLabel(NoLabels, "name", "custom"), <<>>), ns,
              NoClusterDeployment, FALSE) :
          ns \in {NoNamespace} \cup
                 {Namespace(SetLabel(NoLabels, clusterLabel, v), FALSE) : v \in Names}}
  \* a cluster deleting or gone, with what is left of its namespace
  \cup {Store(mc, ns, NoClusterDeployment, FALSE) :
          mc \in {DeletingManagedCluster(n), NoManagedCluster},
          ns \in {NoNamespace, Namespace(SetLabel(NoLabels, clusterLabel, n), TRUE)}}
  \cup {Store(mc, Namespace(SetLabel(NoLabels, clusterLabel, n), FALSE), cd, FALSE) :
          mc \in {DeletingManagedCluster(n), NoManagedCluster},
          cd \in InitClusterDeployments}

NoPrior == [ran |-> FALSE, err |-> Nil, failed |-> {}]

NoLast(st) ==
  Out("none", st, NoResult, Nil, <<>>, NoDelete, NoDecision, FALSE) @@
  [pre |-> st, imp |-> NoImport, prior |-> NoPrior, origin |-> st]

Init ==
  /\ name \in RequestNames
  /\ store \in InitStores(name)
  /\ faults = MaxFail
  /\ changes = MaxEnv
  /\ last = NoLast(store)

\* What `last` holds once Reconcile(n, st, fail, imp) has run after `before`:
\* what it did and returned, what it started from, and what it follows.
Completed(n, st, before, fail, imp) ==
  Reconcile(n, st, fail, imp) @@
  [pre |-> st, imp |-> imp,
   prior |-> IF before.kind = "provision" /\ before.store = st
               THEN [ran |-> TRUE, err |-> before.err, failed |-> before.failed]
               ELSE NoPrior,
   origin |-> IF before.kind = "provision" /\ before.store = st /\ before.err # Nil
                THEN before.origin ELSE st]

\* The Reconcile the queue delivers for `name`.  The store fails the calls in
\* `fail`, every one of which the reconcile meets; `imp` is how the direct
\* import ends, when one is attempted.
Delivered(fail) ==
  /\ UNCHANGED <<name, changes>>
  /\ faults' = faults - Cardinality(fail)
  /\ \E imp \in ImportOutcomes :
       /\ last' = Completed(name, store, last, fail, imp)
       /\ last'.failed = fail
       /\ last'.attempted \/ imp = NoImport
       /\ store' = last'.store

ReconcileRequest == \E fail \in FailSets(faults) : Delivered(fail)

\* a Reconcile all of whose store calls succeed
ReconcileUndisturbed == Delivered({})

\* a change made by a user, the store or another controller
Outside ==
  /\ changes > 0
  /\ changes' = changes - 1
  /\ UNCHANGED <<name, faults, last>>

\* a user deletes the ManagedCluster: the store stamps it
DeleteManagedCluster ==
  /\ store.mc.exists /\ ~store.mc.deleting
  /\ store' = [store EXCEPT !.mc.deleting = TRUE]
  /\ Outside

\* its finalizers are released by their owners and the store drops it
ManagedClusterRemoved ==
  /\ store.mc.exists /\ store.mc.deleting
  /\ store' = [store EXCEPT !.mc = NoManagedCluster]
  /\ Outside

\* the owner of the ClusterDeployment removes it with the cluster, once no
\* finalizer of this controller holds it
ClusterDeploymentRemoved ==
  /\ ~store.mc.exists \/ store.mc.deleting
  /\ store.cd.exists /\ ~Contains(store.cd.finalizers, managedClusterFinalizer)
  /\ store' = [store EXCEPT !.cd = NoClusterDeployment]
  /\ Outside

\* a namespace under deletion is emptied and dropped by the store
NamespaceFinalized ==
  /\ store.ns.exists /\ store.ns.deleting
  /\ store' = [store EXCEPT !.ns = NoNamespace, !.cd = NoClusterDeployment,
                            !.ais = FALSE, !.sa = "absent", !.manifests = "absent",
                            !.importSecret = "absent", !.syncset = FALSE,
                            !.mw = "absent"]
  /\ Outside

\* the credentials of the bootstrap service account are rotated from outside
RotateServiceAccount ==
  /\ store.sa = "generated"
  /\ store' = [store EXCEPT !.sa = "rotated"]
  /\ Outside

Next ==
  \/ ReconcileRequest
  \/ DeleteManagedCluster
  \/ ManagedClusterRemoved
  \/ ClusterDeploymentRemoved
  \/ NamespaceFinalized
  \/ RotateServiceAccount

Spec == Init /\ [][Next]_vars

\* The queue keeps delivering the request (a failed or changed cluster is
\* requeued) and the store stops failing: a Reconcile that meets no store error
\* and would change something eventually runs.
\* Checked from the new clusters without self-managed label, and from the
\* deleting ones that let the store and the other controllers act.
FairInit ==
  /\ Init
  /\ ~HasLabel(store.mc.labels, selfManagedLabel)
  /\ store.mc.conditions = <<>>
  /\ store.mc.exists
  /\ store.mc.deleting =>
       \/ store.ns.exists /\ store.ns.deleting
       \/ store.cd.exists /\ store.cd.finalizers = <<>>

FairSpec == FairInit /\ [][Next]_vars /\ WF_vars(ReconcileUndisturbed)

TypeOK ==
  /\ name \in Names
  /\ faults \in 0..MaxFail
  /\ changes \in 0..MaxEnv
  /\ store.sa \in {"absent", "generated", "rotated"}
  /\ last.kind \in {"none", "fetch", "cleanup", "deletion", "provision"}

\* ------------------------------------------------------------ single calls
\* The functions of the controller applied one call at a time, to every input
\* up to the bounds: the outcome of the call is kept in `last`.
NoCallYet == last.kind = "none"

\* the objects Reconcile, toBeImported and deleteNamespace pass to Get
ObjectTypes ==
  {"*clusterv1.ManagedCluster", "*corev1.Namespace", "*corev1.ServiceAccount",
   "*hivev1.ClusterDeployment", "*corev1.Secret"}

\* what a reader holds under a key: nothing, or one of two versions
Versions == {"notfound", "v1", "v2"}

ConditionTypes == {ManagedClusterConditionAvailable, ManagedClusterImportSucceeded}

Conditions ==
  {Condition(t, s, "", "") : t \in ConditionTypes, s \in AvailableStatuses}

RECURSIVE ConditionLists(_)
ConditionLists(n) ==
  IF n = 0 THEN {<<>>}
  ELSE LET S == ConditionLists(n - 1)
       IN S \cup {Append(l, c) : l \in S, c \in Conditions}

Reasons == {"", "Unable to import c1"}

GetCall ==
  /\ NoCallYet
  /\ \E type \in ObjectTypes, cached \in Versions, authoritative \in Versions :
       last' = [kind |-> "Get", type |-> type, cached |-> cached,
                authoritative |-> authoritative,
                out |-> customClientGet(type, cached, authoritative)]
  /\ UNCHANGED <<name, store, faults, changes>>

CheckOffLineCall ==
  /\ NoCallYet
  /\ \E conditions \in ConditionLists(MaxConditions) :
       last' = [kind |-> "checkOffLine", conditions |-> conditions,
                offline |-> checkOffLine(conditions)]
  /\ UNCHANGED <<name, store, faults, changes>>

SetConditionImportCall ==
  /\ NoCallYet
  /\ store.mc.exists
  /\ \E conditions \in ConditionLists(MaxConditions), errIn \in {Nil, ImportError},
        reason \in Reasons, fail \in {{}, {"PatchStatus"}} :
       LET st == [store EXCEPT !.mc.conditions = conditions]
       IN last' = [kind |-> "setConditionImport", pre |-> st, errIn |-> errIn,
                   reason |-> reason, fail |-> fail,
                   out |-> setConditionImport(st, errIn, reason, fail, <<>>)]
  /\ UNCHANGED <<name, store, faults, changes>>

\* lines 288-297 of Reconcile, entered with the import approved
ImportAndRecordCall ==
  /\ NoCallYet
  /\ store.mc.exists /\ ~store.mc.deleting
  /\ \E imp \in ImportOutcomes, fail \in {{}, {"PatchStatus"}} :
       last' = importAndRecord(name, store, fail, imp, <<>>, NoDecision) @@
               [pre |-> store, imp |-> imp, fail |-> fail]
  /\ UNCHANGED <<name, store, faults, changes>>

\* the calls deleteNamespace issues, any of which the store may fail
DeleteCalls ==
  {"GetNamespace", "GetClusterDeployment", "UpdateClusterDeployment", "DeleteNamespace"}

\* a namespace absent, present or under deletion, and in one that exists a
\* ClusterDeployment absent, present, or present with the finalizer
DeleteStores(st) ==
  {[st EXCEPT !.ns = NoNamespace, !.cd = NoClusterDeployment]}
  \cup {[st EXCEPT !.ns = Namespace(NoLabels, deleting), !.cd = cd] :
          deleting \in BOOLEAN, cd \in InitClusterDeployments}

DeleteNamespaceCall ==
  /\ NoCallYet
  /\ \E st \in DeleteStores(store), fail \in SUBSET DeleteCalls :
       last' = [kind |-> "deleteNamespace", pre |-> st, fail |-> fail,
                out |-> deleteNamespace(name, st, fail)]
  /\ UNCHANGED <<name, store, faults, changes>>

CallNext ==
  \/ DeleteNamespaceCall
  \/ GetCall
  \/ CheckOffLineCall
  \/ SetConditionImportCall
  \/ ImportAndRecordCall

CallSpec == Init /\ [][CallNext]_vars

\* ------------------------------------------------------------------ claims
Provisioning == last.kind = "provision"
LogHas(log, call, outcome) == \E i \in 1..Len(log) : log[i] = Call(call, outcome)
LabelOf(labels, k) == IF HasLabel(labels, k) THEN labels[k] ELSE ""

\* C1: deleteNamespace never issues the namespace delete while a
\* ClusterDeployment of the cluster's name exists, in the cleanup of a cluster
\* that is gone as in the deletion of one that is deleting; and when it returns
\* the block error, its update has released this controller's finalizer from
\* the ClusterDeployment.
DeletionOrdering ==
  last.dn.invoked =>
    /\ ("DeleteNamespace" \in Calls(last.dn.calls) => ~last.pre.cd.exists)
    /\ (store.ns.exists /\ store.ns.deleting => ~store.cd.exists)
    /\ (last.dn.err = BlockError(name) =>
          /\ LogHas(last.dn.calls, "UpdateClusterDeployment", "ok")
          /\ ~Contains(last.store.cd.finalizers, managedClusterFinalizer))

DeletionBlockedWitness ==
  /\ last.dn.invoked
  /\ Contains(last.pre.cd.finalizers, managedClusterFinalizer)
  /\ last.dn.err = BlockError(name)
  /\ ~store.ns.deleting

\* C2: in toBeImported a parseable self-managed label is the decision, whatever
\* ClusterDeployment and auto-import secret exist; without the label an
\* existing ClusterDeployment decides import and is returned; with neither the
\* decision is import exactly when the auto-import secret exists.
DecisionPrecedence ==
  (last.tbi.invoked /\ FailedCalls(last.tbi.calls) = {}) =>
    LET labels == last.pre.mc.labels
        v == LabelOf(labels, selfManagedLabel)
        d == last.tbi
    IN IF HasLabel(labels, selfManagedLabel)
         THEN /\ v \in {"1", "t", "T", "TRUE", "true", "True"} => d.toImport /\ d.err = Nil
              /\ v \in {"0", "f", "F", "FALSE", "false", "False"} => ~d.toImport /\ d.err = Nil
       ELSE IF last.pre.cd.exists
         THEN d.toImport /\ d.cd = ClusterDeploymentRef(name) /\ d.err = Nil
       ELSE d.toImport = last.pre.ais /\ d.err = Nil

DecisionLabelFalseWitness ==
  /\ last.tbi.invoked
  /\ LabelOf(last.pre.mc.labels, selfManagedLabel) = "false"
  /\ last.pre.cd.exists /\ last.pre.ais
  /\ ~last.tbi.toImport

\* C3 (as claimed): a Reconcile that follows an error-free successful one on
\* an unchanged store issues no update, create, patch or delete (the upserts
\* set aside) and leaves labels, finalizers and conditions as they were.
SecondReconcileMutatesNothing ==
  (Provisioning /\ last.prior.ran /\ last.prior.err = Nil /\ last.prior.failed = {}
     /\ last.failed = {}) =>
    /\ Calls(last.calls) \cap {"UpdateManagedCluster", "UpdateNamespace",
                                "CreateServiceAccount", "PatchStatus",
                                "UpdateClusterDeployment", "DeleteNamespace"} = {}
    /\ last.store.mc = last.pre.mc

\* C4 (as claimed): in the provisioning sequence a store call that fails,
\* lookups included, is the last call of the reconcile and its error is what
\* the reconcile returns (the final status patch set aside).
FailFast ==
  Provisioning =>
    \A i \in 1..Len(last.calls) :
      (last.calls[i].outcome = "error" /\ last.calls[i].call # "PatchStatus") =>
        /\ i = Len(last.calls)
        /\ last.err = StoreError(last.calls[i].call)

\* C5 (as claimed): whenever the import is attempted, its outcome, success or
\* failure, is recorded as the ManagedClusterImportSucceeded condition, and the
\* result and error of the import are returned as they are.
ImportOutcomeRecorded ==
  (Provisioning /\ last.attempted /\ last.failed = {}) =>
    LET conditions == last.store.mc.conditions
        i == FindStatusCondition(conditions, ManagedClusterImportSucceeded)
    IN /\ last.result = last.imp.result
       /\ last.err = last.imp.err
       /\ "PatchStatus" \in Calls(last.calls)
       /\ i # 0
       /\ conditions[i].status = (IF last.imp.err = Nil THEN "True" ELSE "False")

ScenarioD ==
  /\ last.kind = "cleanup"
  /\ last.pre.ns.exists /\ ~last.pre.ns.deleting
  /\ last.pre.cd.exists
  /\ last.failed = {}

\* C6 (as claimed): in scenario D the reconcile returns the blocking error.
ScenarioDReturnsBlockError ==
  ScenarioD => last.err = BlockError(name)

\* C6 (amended): with the ManagedCluster gone, its namespace there and not
\* deleting, and a ClusterDeployment in it, the finalizer is released from the
\* ClusterDeployment and deleteNamespace returns the blocking error; Reconcile
\* logs that error and returns no error, with a requeue after one minute.
ScenarioDRequeues ==
  ScenarioD =>
    /\ ~Contains(last.store.cd.finalizers, managedClusterFinalizer)
    /\ last.store.cd.exists
    /\ last.dn.err = BlockError(name)
    /\ last.err = Nil
    /\ last.result = [Requeue |-> TRUE, RequeueAfter |-> 1]

ScenarioDWitness ==
  /\ ScenarioD
  /\ Contains(last.pre.cd.finalizers, managedClusterFinalizer)
  /\ last.result.Requeue

\* C7 (as claimed): after a successful Reconcile the namespace carries the
\* back-reference label with the cluster's name, whatever it carried before.
LabelPropagationAlways ==
  (Provisioning /\ last.err = Nil) =>
    /\ HasLabel(last.store.ns.labels, clusterLabel)
    /\ last.store.ns.labels[clusterLabel] = name

\* C7 (amended): after a successful Reconcile the namespace carries the
\* back-reference label: with the cluster's name when it carried none before,
\* and with the value it carried before otherwise.
LabelPropagation ==
  (Provisioning /\ last.err = Nil) =>
    /\ HasLabel(last.store.ns.labels, clusterLabel)
    /\ last.store.ns.labels[clusterLabel] =
         (IF HasLabel(last.pre.ns.labels, clusterLabel)
            THEN last.pre.ns.labels[clusterLabel] ELSE name)

LabelAddedWitness ==
  /\ Provisioning /\ last.err = Nil
  /\ ~HasLabel(last.pre.ns.labels, clusterLabel)
  /\ LabelOf(last.store.ns.labels, clusterLabel) = name

\* C8 (as claimed): one toBeImported performs at most one store lookup.
AtMostOneLookup ==
  last.tbi.invoked => Len(last.tbi.calls) <= 1

\* C8 (amended): one toBeImported performs at most two store lookups: the one
\* of the ClusterDeployment and, only when that reports not-found, the one of
\* the auto-import secret.
AtMostTwoLookups ==
  last.tbi.invoked =>
    LET log == last.tbi.calls
    IN /\ Len(log) <= 2
       /\ Len(log) >= 1 => log[1].call = "GetClusterDeployment"
       /\ Len(log) = 2 => log[1].outcome = "notfound" /\ log[2].call = "GetAutoImportSecret"

TwoLookupsWitness ==
  /\ last.tbi.invoked
  /\ Len(last.tbi.calls) = 2
  /\ last.tbi.toImport

\* C9: toBeImported looks nothing up when the self-managed label is present,
\* parseable or not, and never reads the auto-import secret when the lookup of
\* the ClusterDeployment found it or failed with another error than not-found.
ShortCircuit ==
  last.tbi.invoked =>
    LET log == last.tbi.calls
    IN /\ HasLabel(last.pre.mc.labels, selfManagedLabel) => log = <<>>
       /\ (log # <<>> /\ log[1].outcome \in {"ok", "error"}) =>
            "GetAutoImportSecret" \notin Calls(log)

ShortCircuitWitness ==
  /\ last.tbi.invoked
  /\ last.tbi.calls = <<Call("GetClusterDeployment", "error")>>
  /\ last.pre.ais

\* what provisioning establishes for a cluster
EndState(st) ==
  [finalizers |-> st.mc.finalizers, labels |-> st.mc.labels, namespace |-> st.ns.labels,
   sa |-> st.sa, manifests |-> st.manifests, importSecret |-> st.importSecret]

Active == store.mc.exists /\ ~store.mc.deleting /\ store.ns.exists

Provisioned ==
  /\ Contains(store.mc.finalizers, managedClusterFinalizer)
  /\ HasLabel(store.mc.labels, "name")
  /\ HasLabel(store.ns.labels, clusterLabel)
  /\ store.sa # "absent"
  /\ store.manifests = "current"
  /\ store.importSecret = "current"

ResumedFromAbort ==
  /\ Provisioning
  /\ last.prior.ran /\ last.prior.err # Nil
  /\ last.failed = {}

\* C10: a Reconcile that meets no store error after one or more that aborted
\* leaves the end state a single error-free Reconcile from the original store
\* leaves; and when the store stops failing, the queue's repeated reconciles
\* bring every active cluster with a namespace to that end state for good.
Convergence ==
  /\ [](ResumedFromAbort =>
          EndState(last.store) = EndState(Reconcile(name, last.origin, {}, last.imp).store))
  /\ <>[](Active => Provisioned)

ConvergenceWitness ==
  /\ ResumedFromAbort
  /\ last.prior.failed # {}
  /\ last.err = Nil
  /\ EndState(last.store) # EndState(last.pre)
  /\ Provisioned

\* C11 (as claimed): setConditionImport returns the error it was given, whether
\* or not the status patch succeeds.
RecorderReturnsInputError ==
  last.kind = "setConditionImport" => last.out.err = last.errIn

\* C11 (amended): setConditionImport returns the error it was given when the
\* status patch succeeds (nil stays nil, an import error is returned as it is)
\* and the error of the patch when the patch fails, leaving the stored
\* conditions as they were; Reconcile only logs what the recorder returns and
\* returns the result and error of the import.
RecorderReturn ==
  /\ last.kind = "setConditionImport" =>
       IF "PatchStatus" \in last.fail
         THEN /\ last.out.err = StoreError("PatchStatus")
              /\ last.out.store = last.pre
         ELSE last.out.err = last.errIn
  /\ (last.kind = "provision" /\ "PatchStatus" \in Calls(last.calls)) =>
       /\ last.err = last.imp.err
       /\ last.result = last.imp.result

RecorderPatchFailsWitness ==
  /\ last.kind = "setConditionImport"
  /\ last.errIn = ImportError
  /\ "PatchStatus" \in last.fail
  /\ last.out.err # last.errIn

\* C12: checkOffLine reports offline when the list holds no Available
\* condition or its (first) Available condition is Unknown or False, and online
\* exactly when that condition is True, for every list of conditions.
ReachabilityClassifier ==
  last.kind = "checkOffLine" =>
    LET conditions == last.conditions
        available == SelectSeq(conditions,
                               LAMBDA c : c.type = ManagedClusterConditionAvailable)
    IN /\ available = <<>> => last.offline
       /\ available # <<>> => (last.offline <=> Head(available).status \in {"Unknown", "False"})
       /\ ~last.offline <=> (available # <<>> /\ Head(available).status = "True")

ClassifierOnlineWitness ==
  /\ last.kind = "checkOffLine"
  /\ Len(last.conditions) = 2
  /\ last.conditions[2] = Condition(ManagedClusterConditionAvailable, "True", "", "")
  /\ ~last.offline

\* C14: a Get through customClient for a *corev1.Secret is served by the
\* APIReader with what the store holds, whatever the cache holds; a Get for
\* any other object is served by the cached Client.
SecretReadPath ==
  last.kind = "Get" =>
    IF last.type = "*corev1.Secret"
      THEN last.out = [reader |-> "APIReader", value |-> last.authoritative]
      ELSE last.out = [reader |-> "Client", value |-> last.cached]

StaleSecretWitness ==
  /\ last.kind = "Get"
  /\ last.type = "*corev1.Secret"
  /\ last.cached = "v1" /\ last.authoritative = "v2"
  /\ last.out.value = "v2"

ScenarioC ==
  /\ Provisioning /\ last.failed = {}
  /\ last.pre.ns.exists
  /\ checkOffLine(last.pre.mc.conditions)
  /\ ~HasLabel(last.pre.mc.labels, selfManagedLabel)
  /\ ~last.pre.cd.exists
  /\ ~last.pre.ais

\* C13: for an active cluster that is unreachable and has no self-managed
\* label, no ClusterDeployment and no auto-import secret, the decision is
\* do-not-import, and Reconcile ends with no error, no requeue, no import
\* attempt and no import condition written.
ScenarioCNoImport ==
  ScenarioC =>
    /\ last.tbi.invoked /\ ~last.tbi.toImport /\ last.tbi.err = Nil
    /\ last.err = Nil
    /\ last.result = [Requeue |-> FALSE, RequeueAfter |-> 0]
    /\ ~last.attempted
    /\ "importCluster" \notin Calls(last.calls)
    /\ "PatchStatus" \notin Calls(last.calls)
    /\ last.store.mc.conditions = last.pre.mc.conditions

ScenarioCWitness ==
  /\ ScenarioC
  /\ last.tbi.calls = <<Call("GetClusterDeployment", "notfound"),
                        Call("GetAutoImportSecret", "notfound")>>
  /\ last.store.importSecret = "current"

MutatingDeleteCalls == {"UpdateClusterDeployment", "DeleteNamespace"}

\* C15: when the namespace does not exist, or exists and is under deletion,
\* deleteNamespace succeeds after the one lookup of the namespace: it neither
\* looks up nor updates the ClusterDeployment, whose finalizer stays, and
\* issues no namespace delete.
DeletionNoOps ==
  (/\ last.kind = "deleteNamespace"
   /\ "GetNamespace" \notin last.fail
   /\ ~last.pre.ns.exists \/ last.pre.ns.deleting) =>
    /\ last.out.err = Nil
    /\ last.out.calls = <<Call("GetNamespace",
                               IF last.pre.ns.exists THEN "ok" ELSE "notfound")>>
    /\ last.out.store = last.pre

DeletionNoOpWitness ==
  /\ last.kind = "deleteNamespace"
  /\ last.fail = {}
  /\ last.pre.ns.exists /\ last.pre.ns.deleting
  /\ Contains(last.pre.cd.finalizers, managedClusterFinalizer)
  /\ Contains(last.out.store.cd.finalizers, managedClusterFinalizer)

ProvisioningCalls ==
  {"UpdateManagedCluster", "UpdateNamespace", "GetServiceAccount", "CreateServiceAccount",
   "CreateOrUpdateInPath", "generateImportYAMLs", "createOrUpdateImportSecret",
   "deleteKlusterletSyncSets", "createOrUpdateManifestWorks", "GetAutoImportSecret",
   "importCluster", "PatchStatus"}

\* C16: a Reconcile that fetches a ManagedCluster with its deletion timestamp
\* set runs the deletion pipeline and returns what that returns; it issues no
\* call of the provisioning sequence, leaves the cluster and the labels of the
\* namespace as they were, and does not invoke toBeImported.
LifecycleDispatch ==
  (/\ last.kind # "none"
   /\ last.pre.mc.exists /\ last.pre.mc.deleting
   /\ "GetManagedCluster" \notin last.failed) =>
    /\ last.kind = "deletion"
    /\ last.dn.invoked
    /\ last.err = last.dn.err
    /\ Calls(last.calls) \cap ProvisioningCalls = {}
    /\ ~last.tbi.invoked /\ ~last.attempted
    /\ last.store.mc = last.pre.mc
    /\ last.store.ns.labels = last.pre.ns.labels
    /\ last.store.sa = last.pre.sa
    /\ last.store.manifests = last.pre.manifests
    /\ last.store.importSecret = last.pre.importSecret

LifecycleDispatchWitness ==
  /\ last.kind = "deletion"
  /\ LogHas(last.calls, "DeleteNamespace", "ok")
  /\ last.store.ns.deleting
  /\ ~HasLabel(last.pre.ns.labels, clusterLabel)

\* C17: a Reconcile creates the bootstrap service account only when its
\* lookup reported not-found, and one that exists, rotated from outside or
\* not, is the same after every Reconcile.
BootstrapIdentityCreateOnly ==
  last.kind # "none" =>
    /\ "CreateServiceAccount" \in Calls(last.calls) =>
         /\ LogHas(last.calls, "GetServiceAccount", "notfound")
         /\ last.pre.sa = "absent"
    /\ last.pre.sa # "absent" => last.store.sa = last.pre.sa

RotatedIdentityKeptWitness ==
  /\ Provisioning
  /\ last.pre.sa = "rotated"
  /\ LogHas(last.calls, "CreateOrUpdateInPath", "ok")
  /\ last.store.sa = "rotated"

Position(log, call) ==
  IF call \in Calls(log)
    THEN CHOOSE i \in 1..Len(log) : log[i].call = call /\ \A j \in 1..(i - 1) : log[j].call # call
    ELSE 0

ReachedBranch == Provisioning /\ LogHas(last.calls, "deleteKlusterletSyncSets", "ok")

\* C18: a Reconcile that reaches the branch with the Available condition True
\* upserts the ManifestWorks, after the import secret, and stops: toBeImported
\* is not invoked, no import is attempted and no condition is written; one that
\* finds the cluster offline upserts no ManifestWorks.
ReachableBranch ==
  /\ (ReachedBranch /\ ~checkOffLine(last.pre.mc.conditions)) =>
       /\ Position(last.calls, "createOrUpdateManifestWorks") = Len(last.calls)
       /\ LogHas(last.calls, "createOrUpdateImportSecret", "ok")
       /\ Position(last.calls, "createOrUpdateImportSecret")
            < Position(last.calls, "createOrUpdateManifestWorks")
       /\ ~last.tbi.invoked /\ ~last.attempted
       /\ "PatchStatus" \notin Calls(last.calls)
       /\ last.store.mc.conditions = last.pre.mc.conditions
  /\ (Provisioning /\ checkOffLine(last.pre.mc.conditions)) =>
       /\ "createOrUpdateManifestWorks" \notin Calls(last.calls)
       /\ last.store.mw = last.pre.mw

ReachableBranchWitness ==
  /\ ReachedBranch
  /\ last.pre.mc.conditions = <<Available("True")>>
  /\ last.pre.mw = "absent"
  /\ last.store.mw = "current"
  /\ last.err = Nil

\* C19: what toBeImported returns is consistent: with an error the decision is
\* false and both references are nil; at most one reference is not nil; a
\* reference that is not nil comes with the decision true; and a decision
\* taken from the self-managed label comes with both references nil.
DecisionConsistent ==
  last.tbi.invoked =>
    LET d == last.tbi
    IN /\ d.err # Nil => ~d.toImport /\ d.secret = NoRef /\ d.cd = NoRef
       /\ d.secret = NoRef \/ d.cd = NoRef
       /\ (d.secret # NoRef \/ d.cd # NoRef) => d.toImport
       /\ HasLabel(last.pre.mc.labels, selfManagedLabel) => d.secret = NoRef /\ d.cd = NoRef

DecisionParseErrorWitness ==
  /\ last.tbi.invoked
  /\ LabelOf(last.pre.mc.labels, selfManagedLabel) = "no"
  /\ last.tbi.err # Nil
  /\ last.pre.cd.exists /\ last.pre.ais

MutatingDeleteLog(log) == SelectSeq(log, LAMBDA c : c.call \in MutatingDeleteCalls)

\* C20: one deleteNamespace issues at most one mutating call, the update of
\* the ClusterDeployment or the delete of the namespace; when the update
\* fails its error is returned and no delete is issued; and a lookup that
\* fails with another error than not-found returns that error with no mutating
\* call and the store as it was.
DeletionSingleMutation ==
  last.kind = "deleteNamespace" =>
    LET log == last.out.calls
    IN /\ Len(MutatingDeleteLog(log)) <= 1
       /\ LogHas(log, "UpdateClusterDeployment", "error") =>
            /\ last.out.err = StoreError("UpdateClusterDeployment")
            /\ "DeleteNamespace" \notin Calls(log)
            /\ last.out.store = last.pre
       /\ \A call \in {"GetNamespace", "GetClusterDeployment"} :
            LogHas(log, call, "error") =>
              /\ last.out.err = StoreError(call)
              /\ MutatingDeleteLog(log) = <<>>
              /\ last.out.store = last.pre

DeletionUpdateFailsWitness ==
  /\ last.kind = "deleteNamespace"
  /\ Contains(last.pre.cd.finalizers, managedClusterFinalizer)
  /\ last.fail = {"UpdateClusterDeployment"}
  /\ last.out.err = StoreError("UpdateClusterDeployment")

====
